---- MODULE Spec2Model ----
(***************************************************************************)
(* Model of the time-series ingestion and delta engine of src/app.py:      *)
(* the Keepa series decoders, the daily aggregation, the COLD/WARM         *)
(* reconciler of sync_keepa, the delta computations of get_deltas and      *)
(* get_all_deltas, and the item registry routes.                           *)
(*                                                                         *)
(* Instants are minutes since 1970-01-01T00:00Z.  A Python value is a      *)
(* tagged record: None, an int, a non-numeric str, or a two-decimal number *)
(* (units, hundredths) as produced by val / 100.                           *)
(***************************************************************************)
EXTENDS Integers, Sequences, FiniteSets, TLC

\* ------------------------------------------------------------------ values
None == [tag |-> "none"]
IntV(n) == [tag |-> "int", v |-> n]
StrV == [tag |-> "str"]
\* c hundredths as a decimal number: c / 100
Dec(c) == [tag |-> "dec", units |-> c \div 100, frac |-> c % 100]

MinutesPerDay == 1440
\* datetime(2011, 1, 1) in minutes since 1970-01-01
KEEPA_EPOCH == 21564000
BackfillDays == 180
MinHistory == 30
PriceCeiling == 1000000

\* dt.date()
DateOf(dt) == dt \div MinutesPerDay
\* datetime.combine(day, datetime.min.time())
Midnight(day) == day * MinutesPerDay

\* ------------------------------------------------------------------ bounds
\* longest raw series array of the decoder inputs
MaxLen == 4

\* rows of the asins table; the first batch_size of them make the first batch
NAsins == 11
\* products in one fetched response
MaxProducts == 2
\* clock ticks (minutes) over a run
MaxTicks == 1

VARIABLES
  now,      \* the clock (datetime.utcnow() and the database's NOW())
  api_key,  \* settings row keepa_api_key
  asins,    \* asins table
  history,  \* committed rows of the history table
  sync,     \* per running sync_keepa request: locals and open transaction
  csv, series, daily, latest,  \* decoder harness: input columns and results
  deltas,   \* the last response of GET /deltas/<asin>
  bulk      \* the last response of GET /deltas

vars == <<now, api_key, asins, history, sync, csv, series, daily, latest, deltas,
          bulk>>
svars == <<api_key, asins, history, sync>>
\* results of the read-only operations
rvars == <<csv, series, daily, latest, deltas, bulk>>

\* --------------------------------------------------------- SeriesDecoder
\* number of (ts, val) pairs visited by range(0, len(arr) - 1, 2)
NPairs(arr) == IF Len(arr) < 2 THEN 0 ELSE Len(arr) \div 2

RECURSIVE PricePairs(_, _, _)
PricePairs(arr, j, cutoff) ==
  IF j > NPairs(arr) THEN <<>>
  ELSE LET ts   == arr[2 * j - 1]
           val  == arr[2 * j]
           rest == PricePairs(arr, j + 1, cutoff)
           dt   == KEEPA_EPOCH + ts.v
       IN  IF ts.tag = "none" \/ val.tag = "none" THEN rest
           ELSE IF ts.tag = "str" THEN rest            \* int(ts) raises, caught
           ELSE IF dt < cutoff THEN rest
           ELSE IF val.tag = "str" THEN rest           \* val > 1000000 raises, caught
           ELSE IF val.v \in {-1, 0} \/ val.v > PriceCeiling
                THEN <<[dt |-> dt, val |-> None]>> \o rest
                ELSE <<[dt |-> dt, val |-> Dec(val.v)]>> \o rest

extract_keepa_series(arr, cutoff) == PricePairs(arr, 1, cutoff)

\* first definition of extract_keepa_int_series (shadowed, never called)
RECURSIVE IntPairsFirst(_, _, _)
IntPairsFirst(arr, j, cutoff) ==
  IF j > NPairs(arr) THEN <<>>
  ELSE LET ts   == arr[2 * j - 1]
           val  == arr[2 * j]
           rest == IntPairsFirst(arr, j + 1, cutoff)
           dt   == KEEPA_EPOCH + ts.v
       IN  IF ts.tag = "none" \/ val.tag = "none" THEN rest
           ELSE IF ts.tag = "str" THEN rest            \* int(ts) raises, caught
           ELSE IF dt < cutoff THEN rest
           ELSE IF val.tag = "int" /\ val.v = -1
                THEN <<[dt |-> dt, val |-> None]>> \o rest
           ELSE IF val.tag = "str" THEN rest           \* int(val) raises, caught
           ELSE <<[dt |-> dt, val |-> IntV(val.v)]>> \o rest

extract_keepa_int_series_first(arr, cutoff) ==
  [raised |-> FALSE, series |-> IntPairsFirst(arr, 1, cutoff)]

\* second (shadowing) definition: the one the backfill calls.  No try/except:
\* timedelta(minutes=ts) on a non-numeric ts raises out of the decoder, and a
\* non-numeric val is appended as it is.
RECURSIVE IntPairs(_, _, _)
IntPairs(arr, j, cutoff) ==
  IF j > NPairs(arr) THEN [raised |-> FALSE, series |-> <<>>]
  ELSE LET ts   == arr[2 * j - 1]
           val  == arr[2 * j]
           rest == IntPairs(arr, j + 1, cutoff)
           dt   == KEEPA_EPOCH + ts.v
           keep(e) == [rest EXCEPT !.series = <<e>> \o @]
       IN  IF ts.tag = "none" \/ val.tag = "none" THEN rest
           ELSE IF ts.tag = "str" THEN [raised |-> TRUE, series |-> <<>>]
           ELSE IF dt < cutoff THEN rest
           ELSE IF val.tag = "int" /\ val.v = -1
                THEN keep([dt |-> dt, val |-> None])
                ELSE keep([dt |-> dt, val |-> val])

extract_keepa_int_series(arr, cutoff) ==
  LET r == IntPairs(arr, 1, cutoff)
  IN  IF r.raised THEN [raised |-> TRUE, series |-> <<>>] ELSE r

\* ------------------------------------------- append path: latest values
\* [col[i] for i in range(1, len(col), 2)]
RECURSIVE ValueEntries(_, _)
ValueEntries(col, i) ==
  IF i > Len(col) THEN <<>> ELSE <<col[i]>> \o ValueEntries(col, i + 2)

IsPrice(e) == e.v \notin {-1, 0} /\ e.v < PriceCeiling

\* lines 281-286 and 289-294; a None or str value entry makes `<` raise
LatestPrice(col) ==
  IF Len(col) < 2 THEN [raised |-> FALSE, val |-> None]
  ELSE LET vs == ValueEntries(col, 2)
       IN  IF \E i \in 1..Len(vs) : vs[i].tag # "int"
           THEN [raised |-> TRUE, val |-> None]
           ELSE LET prices == SelectSeq(vs, IsPrice)
                IN  [raised |-> FALSE,
                     val |-> IF prices = <<>> THEN None
                             ELSE Dec(prices[Len(prices)].v)]

NotSentinel(e) == e # IntV(-1)

\* lines 297-301 and 304-308: every element of the array is a candidate
LatestInt(col) ==
  IF col = <<>> THEN None
  ELSE LET vals == SelectSeq(col, NotSentinel)
       IN  IF vals = <<>> THEN None ELSE vals[Len(vals)]

\* -------------------------------------------------------- DailyAggregator
DefaultDay ==
  [buybox_price |-> None, new_price |-> None, rank |-> None, seller_count |-> None]

\* mutant: every entry overwrites the slot of its day (last value wins)
RECURSIVE FoldSeriesLastWins(_, _, _, _)
FoldSeriesLastWins(s, i, field, d) ==
  IF i > Len(s) THEN d
  ELSE LET day == DateOf(s[i].dt)
           d1  == IF day \in DOMAIN d THEN d ELSE d @@ (day :> DefaultDay)
       IN  FoldSeriesLastWins(s, i + 1, field, [d1 EXCEPT ![day][field] = s[i].val])

\* for dt, val in s: if daily[day][field] is None: daily[day][field] = val
RECURSIVE FoldSeries(_, _, _, _)
FoldSeries(s, i, field, d) ==
  IF i > Len(s) THEN d
  ELSE LET day == DateOf(s[i].dt)
           d1  == IF day \in DOMAIN d THEN d ELSE d @@ (day :> DefaultDay)
           d2  == IF d1[day][field] = None
                  THEN [d1 EXCEPT ![day][field] = s[i].val] ELSE d1
       IN  FoldSeries(s, i + 1, field, d2)

BuildDaily(bb, new, rank, seller) ==
  FoldSeries(seller, 1, "seller_count",
    FoldSeries(rank, 1, "rank",
      FoldSeries(new, 1, "new_price",
        FoldSeries(bb, 1, "buybox_price", <<>>))))

\* ------------------------------------------------------ decoder inputs
Now0 == KEEPA_EPOCH + 200 * MinutesPerDay + 600
\* mutant: the cutoff taken from the start of the current day
CutoffFromMidnight(t) == Midnight(DateOf(t)) - BackfillDays * MinutesPerDay

\* cutoff = datetime.utcnow() - timedelta(days=180)
Cutoff(t) == t - BackfillDays * MinutesPerDay
\* Keepa minute offset that decodes to the cutoff instant at Now0
TsCut == Cutoff(Now0) - KEEPA_EPOCH

TsElems ==
  {IntV(TsCut - 1), IntV(TsCut), IntV(TsCut + 60), IntV(TsCut + MinutesPerDay),
   None, StrV}
ValElems ==
  {IntV(-1), IntV(0), IntV(2000), IntV(PriceCeiling), IntV(PriceCeiling + 1),
   None, StrV}

RECURSIVE ArraysOfLen(_)
ArraysOfLen(n) ==
  IF n = 0 THEN {<<>>}
  ELSE {Append(s, e) : s \in ArraysOfLen(n - 1),
                       e \in IF n % 2 = 1 THEN TsElems ELSE ValElems}

Arrays == UNION {ArraysOfLen(n) : n \in 0..MaxLen}
OtherArrays ==
  {<<>>, <<IntV(TsCut + 30), IntV(2500)>>,
   <<IntV(TsCut + 2 * MinutesPerDay), IntV(0), IntV(TsCut + 2 * MinutesPerDay + 5), IntV(7)>>}

NotRun == [run |-> FALSE]

\* the decoding part of the backfill branch, lines 443-446
DecodeAll(c, cutoff) ==
  LET rk == extract_keepa_int_series(c.c3, cutoff)
      sl == extract_keepa_int_series(c.c11, cutoff)
  IN  IF rk.raised \/ sl.raised
      THEN [run |-> TRUE, raised |-> TRUE]
      ELSE [run |-> TRUE, raised |-> FALSE,
            bb |-> extract_keepa_series(c.c18, cutoff),
            new |-> extract_keepa_series(c.c1, cutoff),
            rank |-> rk.series, seller |-> sl.series]

\* the latest-value selection of lines 280-308
LatestAll(c) ==
  LET bb == LatestPrice(c.c18)
      nw == LatestPrice(c.c1)
  IN  IF bb.raised \/ nw.raised
      THEN [run |-> TRUE, raised |-> TRUE]
      ELSE [run |-> TRUE, raised |-> FALSE,
            buybox_price |-> bb.val, new_price |-> nw.val,
            rank |-> LatestInt(c.c3), seller_count |-> LatestInt(c.c11)]

DInit ==
  /\ now = Now0
  /\ api_key = None /\ asins = <<>> /\ history = {} /\ sync = <<>>
  /\ \E a \in Arrays, b \in OtherArrays, sw \in BOOLEAN :
        csv = IF sw THEN [c18 |-> a, c1 |-> b, c3 |-> a, c11 |-> b]
                    ELSE [c18 |-> b, c1 |-> a, c3 |-> b, c11 |-> a]
  /\ series = NotRun
  /\ daily = NotRun
  /\ latest = NotRun
  /\ deltas = NotRun /\ bulk = NotRun

SelectLatest ==
  /\ latest = NotRun
  /\ latest' = LatestAll(csv)
  /\ UNCHANGED <<now, svars, csv, series, daily, deltas, bulk>>

Decode ==
  /\ series = NotRun
  /\ series' = DecodeAll(csv, Cutoff(now))
  /\ UNCHANGED <<now, svars, csv, daily, latest, deltas, bulk>>

Aggregate ==
  /\ series # NotRun /\ ~series.raised
  /\ daily = NotRun
  /\ daily' = [run |-> TRUE,
               days |-> BuildDaily(series.bb, series.new, series.rank, series.seller)]
  /\ UNCHANGED <<now, svars, csv, series, latest, deltas, bulk>>

DNext == SelectLatest \/ Decode \/ Aggregate

SpecDecode == DInit /\ [][DNext]_vars

\* ------------------------------------------------- decoder properties
\* the (ts, val) pairs of a raw array, and the ones a decoder must keep
PairIdx(col) == 1..(Len(col) \div 2)
WellFormed(col, j) == col[2 * j - 1].tag = "int" /\ col[2 * j].tag = "int"
Kept(col, cutoff) ==
  {j \in PairIdx(col) : WellFormed(col, j) /\ KEEPA_EPOCH + col[2 * j - 1].v >= cutoff}
\* the i-th smallest element of a finite set of integers
Nth(S, i) == CHOOSE j \in S : Cardinality({k \in S : k <= j}) = i
PriceAsClaimed(v) == IF v = -1 \/ v = 0 \/ v >= 1000000 THEN None ELSE Dec(v)
PriceAsCoded(v) == IF v = -1 \/ v = 0 \/ v > 1000000 THEN None ELSE Dec(v)
CountAsClaimed(v) == IF v = -1 THEN None ELSE IntV(v)
Rule(f, v) ==
  CASE f = "price"       -> PriceAsClaimed(v)
    [] f = "price_coded" -> PriceAsCoded(v)
    [] f = "count"       -> CountAsClaimed(v)
\* the kept pairs in order, each value passed through rule f
Expected(col, cutoff, f) ==
  [i \in 1..Cardinality(Kept(col, cutoff)) |->
     LET j == Nth(Kept(col, cutoff), i)
     IN  [dt |-> KEEPA_EPOCH + col[2 * j - 1].v, val |-> Rule(f, col[2 * j].v)]]
\* the last value entry whose image under rule f is not absent
ExpectedLatest(col, f) ==
  LET J == {j \in PairIdx(col) : col[2 * j].tag = "int" /\ Rule(f, col[2 * j].v) # None}
  IN  IF J = {} THEN None ELSE Rule(f, col[2 * Nth(J, Cardinality(J))].v)

DecodeDone == series # NotRun /\ ~series.raised
LatestDone == latest # NotRun /\ ~latest.raised
AllInt(col) == \A i \in 1..Len(col) : col[i].tag = "int"

\* C1: on the backfill decoder and on the append path's latest-value selection,
\* a raw price of -1, 0 or >= 1,000,000 is absent and every other raw price v
\* becomes v/100 (so exactly 1,000,000 is absent on both paths).
C1_PriceSentinelsBothPaths ==
  /\ DecodeDone =>
       /\ series.bb = Expected(csv.c18, Cutoff(now), "price")
       /\ series.new = Expected(csv.c1, Cutoff(now), "price")
  /\ LatestDone =>
       /\ latest.buybox_price = ExpectedLatest(csv.c18, "price")
       /\ latest.new_price = ExpectedLatest(csv.c1, "price")

\* what the code does for C1: the append path agrees with the claim, the backfill
\* decoder treats only values above 1,000,000 as out of range
C1_AsCoded ==
  /\ DecodeDone =>
       /\ series.bb = Expected(csv.c18, Cutoff(now), "price_coded")
       /\ series.new = Expected(csv.c1, Cutoff(now), "price_coded")
  /\ LatestDone =>
       /\ latest.buybox_price = ExpectedLatest(csv.c18, "price")
       /\ latest.new_price = ExpectedLatest(csv.c1, "price")

Interleaved(col) == AllInt(col) /\ Len(col) >= 2 /\ Len(col) % 2 = 0

\* C2: on the append path each of rank and seller count is the last non-absent
\* value entry of its series, never a timestamp element (checked on well-formed
\* interleaved arrays of integers).
C2_LatestIsValueEntry ==
  LatestDone =>
    /\ Interleaved(csv.c3) => latest.rank = ExpectedLatest(csv.c3, "count")
    /\ Interleaved(csv.c11) =>
         latest.seller_count = ExpectedLatest(csv.c11, "count")

Metrics == {"buybox_price", "new_price", "rank", "seller_count"}
SeriesOf(m) ==
  CASE m = "buybox_price" -> series.bb
    [] m = "new_price"    -> series.new
    [] m = "rank"         -> series.rank
    [] m = "seller_count" -> series.seller
\* positions of the entries of s that fall on a day
OnDay(s, day) == {i \in 1..Len(s) : DateOf(s[i].dt) = day}
Present(s, day) == {i \in OnDay(s, day) : s[i].val # None}
AllDays == UNION {{DateOf(SeriesOf(m)[i].dt) : i \in 1..Len(SeriesOf(m))} : m \in Metrics}
AggregateDone == daily # NotRun

\* C3 as stated: on a day with two or more entries of a metric, the daily snapshot
\* holds the earliest entry's value, also when that entry is absent (checked on
\* arrays of integers).
C3_FirstEntryWins ==
  (AggregateDone /\ AllInt(csv.c18) /\ AllInt(csv.c1)) =>
    \A m \in Metrics : \A day \in DOMAIN daily.days :
      Cardinality(OnDay(SeriesOf(m), day)) >= 2 =>
        daily.days[day][m] = SeriesOf(m)[Nth(OnDay(SeriesOf(m), day), 1)].val

\* C3 amended: the daily snapshot holds, per metric and day, the value of the
\* earliest entry of that day that is not absent (absent when there is none), and
\* the days of the mapping are exactly the days of the decoded entries.
C3_FirstPresentWins ==
  AggregateDone =>
    /\ DOMAIN daily.days = AllDays
    /\ \A m \in Metrics : \A day \in DOMAIN daily.days :
         daily.days[day][m] =
           IF Present(SeriesOf(m), day) = {} THEN None
           ELSE SeriesOf(m)[Nth(Present(SeriesOf(m), day), 1)].val

\* a day whose first price entry is absent and whose later entry is a number,
\* and a day with two different numbers
C3_Witness ==
  /\ AggregateDone
  /\ \E day \in DOMAIN daily.days :
       LET on == OnDay(series.bb, day)
       IN  /\ Cardinality(on) >= 2
           /\ series.bb[Nth(on, 1)].val = None
           /\ series.bb[Nth(on, 2)].val # None
  /\ \E day \in DOMAIN daily.days :
       LET on == OnDay(series.rank, day)
       IN  /\ Cardinality(on) >= 2
           /\ series.rank[Nth(on, 1)].val # None
           /\ series.rank[Nth(on, 2)].val \notin {None, series.rank[Nth(on, 1)].val}

\* C9: every backfill decoder skips a malformed pair (non-numeric timestamp or
\* value) and an odd trailing element, decodes the well-formed pairs around it,
\* and lets no exception escape.
C9_MalformedSkipped ==
  series # NotRun =>
    /\ ~series.raised
    /\ \A m \in Metrics :
         /\ \A i \in 1..Len(SeriesOf(m)) : SeriesOf(m)[i].val.tag # "str"
    /\ [i \in 1..Len(series.bb) |-> series.bb[i].dt]
         = [i \in 1..Cardinality(Kept(csv.c18, Cutoff(now))) |->
              KEEPA_EPOCH + csv.c18[2 * Nth(Kept(csv.c18, Cutoff(now)), i) - 1].v]
    /\ [i \in 1..Len(series.rank) |-> series.rank[i].dt]
         = [i \in 1..Cardinality(Kept(csv.c3, Cutoff(now))) |->
              KEEPA_EPOCH + csv.c3[2 * Nth(Kept(csv.c3, Cutoff(now)), i) - 1].v]

\* the price decoder alone does what C9 says
C9_PriceDecoderSkips ==
  DecodeDone =>
    /\ \A i \in 1..Len(series.bb) : series.bb[i].val.tag # "str"
    /\ [i \in 1..Len(series.bb) |-> series.bb[i].dt]
         = [i \in 1..Cardinality(Kept(csv.c18, Cutoff(now))) |->
              KEEPA_EPOCH + csv.c18[2 * Nth(Kept(csv.c18, Cutoff(now)), i) - 1].v]

\* ================================================== sync_keepa (POST /sync)
Procs == {1, 2}
AsinIds == 1..NAsins
batch_size == 10
\* a product of the response that carries no "asin"
NoAsin == 0

Text(t) == [tag |-> "text", s |-> t]

Row(id, asin, at, bb, np, rk, sc, stock, amz) ==
  [id |-> id, asin |-> asin, captured_at |-> at, buybox_price |-> bb,
   new_price |-> np, rank |-> rk, seller_count |-> sc, stock |-> stock,
   is_amazon_selling |-> amz]

\* the uniqueness constraint on (asin, captured_at)
Conflicts(rows, r) ==
  \E x \in rows : x.asin = r.asin /\ x.captured_at = r.captured_at

\* the metric columns are numeric: a str parameter is rejected by the database
BadValue(r) == \E m \in Metrics : r[m].tag = "str"

\* mutant: the threshold compared with <=
IsColdInclusive(n) == n <= MinHistory

\* if history_count < 30
IsCold(n) == n < MinHistory

\* rows a statement of request p sees: committed ones and its own
Visible(p) == history \cup sync[p].tx

\* ------------------------------------------------------------ payloads
Today0 == DateOf(Now0)
\* Keepa minute offset of minute m of the day d days before Today0
T(d, m) == Midnight(Today0 - d) + m - KEEPA_EPOCH

ColdAsin == 1
WarmAsin == 2
NearAsin == batch_size + 1

NoCsv == [c18 |-> <<>>, c1 |-> <<>>, c3 |-> <<>>, c11 |-> <<>>]
NoMeta == [title |-> "", packageWeight |-> 0, rootCategory |-> 0, imagesCSV |-> <<>>]

ProductA ==
  [asin |-> ColdAsin, title |-> "Widget", packageWeight |-> 907,
   rootCategory |-> 3760901, imagesCSV |-> <<"a1.jpg", "a2.jpg">>,
   csv |-> [c18 |-> <<IntV(T(1, 600)), IntV(2000), IntV(T(0, 60)), IntV(0),
                      IntV(T(0, 120)), IntV(2500)>>,
            c1  |-> <<>>,
            c3  |-> <<IntV(T(1, 600)), IntV(7), IntV(T(1, 700)), IntV(9)>>,
            c11 |-> <<IntV(T(0, 60)), IntV(0)>>],
   stats |-> [stockAmazon |-> IntV(4), isAmazon |-> TRUE]]

\* the same item with a non-numeric timestamp in the rank column
ProductABad == [ProductA EXCEPT !.csv.c3 = <<StrV, IntV(5), IntV(T(1, 700)), IntV(9)>>]

ProductW ==
  [asin |-> WarmAsin, title |-> "", packageWeight |-> 0, rootCategory |-> 0,
   imagesCSV |-> <<>>,
   csv |-> [c18 |-> <<IntV(T(0, 30)), IntV(2100)>>,
            c1  |-> <<IntV(T(0, 30)), IntV(PriceCeiling)>>,
            c3  |-> <<IntV(T(0, 30)), IntV(9), IntV(T(0, 45)), IntV(-1)>>,
            c11 |-> <<IntV(T(0, 30)), IntV(3)>>],
   stats |-> [stockAmazon |-> IntV(-1), isAmazon |-> FALSE]]

ProductC ==
  [asin |-> NearAsin, title |-> "Gadget", packageWeight |-> 0, rootCategory |-> 0,
   imagesCSV |-> <<>>,
   csv |-> [NoCsv EXCEPT !.c18 = <<IntV(T(0, 10)), IntV(1500)>>],
   stats |-> [stockAmazon |-> None, isAmazon |-> FALSE]]

\* the same item with a non-numeric seller count
ProductCBad == [ProductC EXCEPT !.csv.c11 = <<IntV(T(0, 10)), StrV>>]

ProductNoAsin == [ProductC EXCEPT !.asin = NoAsin]

Products == {ProductA, ProductABad, ProductW, ProductC, ProductCBad, ProductNoAsin}

RECURSIVE SeqsUpTo(_, _)
SeqsUpTo(S, n) ==
  IF n = 0 THEN {<<>>}
  ELSE SeqsUpTo(S, n - 1) \cup
       {Append(q, x) : q \in {r \in SeqsUpTo(S, n - 1) : Len(r) = n - 1}, x \in S}

Range(f) == {f[x] : x \in DOMAIN f}

\* what the vendor may answer for a batch: a transport or JSON failure, a body
\* without "products", or products of the requested items
Responses(batch) ==
  {[kind |-> "raise"], [kind |-> "noproducts"]} \cup
  {[kind |-> "products", products |-> q] :
     q \in SeqsUpTo({P \in Products :
                       \/ P.asin \in Range(batch)
                       \/ P.asin = NoAsin /\ ColdAsin \notin Range(batch)},
                    MaxProducts)}

\* ------------------------------------------------------- stored state
InitRow(asin, d) ==
  Row([by |-> 0, i |-> 0, k |-> asin, n |-> d], asin, Midnight(Today0 - d), Dec(1999), None, IntV(5),
      IntV(2), None, FALSE)
\* an item with exactly MinHistory daily snapshots, and one with one less
WarmRows == {InitRow(WarmAsin, d) : d \in 0..(MinHistory - 1)}
NearRows == {InitRow(NearAsin, d) : d \in 1..(MinHistory - 1)}

NewAsin ==
  [is_active |-> TRUE, title |-> Text(""), weight |-> None, category |-> None,
   image_url |-> None]

NoResult == [status |-> 0]
Idle ==
  [pc |-> "idle", asinsL |-> <<>>, i |-> 0, products |-> <<>>, k |-> 0,
   stage |-> "begin", conn |-> "none", tx |-> {}, txmeta |-> <<>>, txnow |-> 0,
   history_count |-> 0, updated |-> 0, errors |-> <<>>, result |-> NoResult]

Init ==
  /\ now = Now0
  /\ api_key \in {None, Text("key")}
  /\ asins = [a \in AsinIds |-> NewAsin]
  /\ history = WarmRows \cup NearRows
  /\ sync = [p \in Procs |-> Idle]
  /\ csv = NoCsv /\ series = NotRun /\ daily = NotRun /\ latest = NotRun
  /\ deltas = NotRun /\ bulk = NotRun

\* ------------------------------------------------------ item metadata
\* round(weight_grams / 453.592, 2), in hundredths of a pound
WeightLbs(g) == Dec((2 * 100000 * g + 453592) \div (2 * 453592))

\* lines 321-359: the columns the UPDATE sets; None for a column left alone
update_fields(product) ==
  [title     |-> IF product.title # "" THEN Text(product.title) ELSE None,
   weight    |-> IF product.packageWeight > 0
                 THEN WeightLbs(product.packageWeight) ELSE None,
   category  |-> IF product.rootCategory # 0
                 THEN Text(ToString(product.rootCategory)) ELSE None,
   image_url |-> IF product.imagesCSV # <<>> /\ product.imagesCSV[1] # ""
                 THEN [tag |-> "url",
                       base |-> "https://images-na.ssl-images-amazon.com/images/I/",
                       file |-> product.imagesCSV[1]]
                 ELSE None]

NoUpdate == [title |-> None, weight |-> None, category |-> None, image_url |-> None]
MetaFields == {"title", "weight", "category", "image_url"}

\* a later UPDATE of the same row in the same transaction overrides column-wise
Overlay(old, upd) ==
  [f \in DOMAIN old |->
     IF f \in MetaFields /\ upd[f] # None THEN upd[f] ELSE old[f]]

PendingMeta(txmeta, asin, upd) ==
  IF asin \in DOMAIN txmeta
  THEN [txmeta EXCEPT ![asin] = Overlay(@, upd)]
  ELSE txmeta @@ (asin :> upd)

\* ------------------------------------------------------ one product
\* lines 312-319
Stock(product) ==
  IF product.stats.stockAmazon # None /\ product.stats.stockAmazon # IntV(-1)
  THEN product.stats.stockAmazon ELSE None

RECURSIVE SortedSeq(_)
SortedSeq(S) ==
  IF S = {} THEN <<>>
  ELSE LET m == CHOOSE x \in S : \A y \in S : x <= y
       IN  <<m>> \o SortedSeq(S \ {m})

\* lines 478-491: one tuple per day of the daily mapping, by day ascending
bulk_rows(id, product, d) ==
  LET days == SortedSeq(DOMAIN d)
  IN  [n \in 1..Len(days) |->
         Row([id EXCEPT !.n = days[n]], product.asin, Midnight(days[n]),
             d[days[n]].buybox_price, d[days[n]].new_price, d[days[n]].rank,
             d[days[n]].seller_count, None, product.stats.isAmazon)]

\* lines 506-510: the single row of the append branch; captured_at is left to
\* the column default, the transaction's NOW()
append_row(id, product, at) ==
  LET v == LatestAll(product.csv)
  IN  Row(id, product.asin, at, v.buybox_price, v.new_price, v.rank,
          v.seller_count, Stock(product), product.stats.isAmazon)

\* mutant: the bulk INSERT without its ON CONFLICT clause
BulkInsertRaises == FALSE

\* line 497: ON CONFLICT DO NOTHING
OnConflictDoNothing == TRUE

\* the INSERT the current product of request p issues, from the branch taken:
\* [branch, raised (a decoder raised before the INSERT), rows, ignore]
Statement(p) ==
  LET s       == sync[p]
      product == s.products[s.k]
      id      == [by |-> p, i |-> s.i, k |-> s.k, n |-> 0]
      dec     == DecodeAll(product.csv, Cutoff(now))
  IN  IF IsCold(s.history_count)
      THEN IF dec.raised
           THEN [branch |-> "backfill", raised |-> TRUE, rows |-> {},
                 ignore |-> OnConflictDoNothing]
           ELSE [branch |-> "backfill", raised |-> FALSE, ignore |-> OnConflictDoNothing,
                 rows |-> Range(bulk_rows(id, product,
                            BuildDaily(dec.bb, dec.new, dec.rank, dec.seller)))]
      ELSE [branch |-> "append", raised |-> FALSE, ignore |-> FALSE,
            rows |-> {append_row(id, product, s.txnow)}]

\* ------------------------------------------------ locks between requests
AtBegin(p) ==
  sync[p].pc = "item" /\ sync[p].stage = "begin" /\ sync[p].k <= Len(sync[p].products)
AtInsert(p) == sync[p].pc = "item" /\ sync[p].stage = "insert"

\* rows of the asins table the next statement of p updates
NeedsMeta(p) ==
  LET product == sync[p].products[sync[p].k]
  IN  IF AtBegin(p) /\ product.asin # NoAsin /\ ~LatestAll(product.csv).raised
         /\ update_fields(product) # NoUpdate
      THEN {product.asin} ELSE {}

\* rows the next statement of p inserts (none when the statement is rejected
\* before it touches the table)
NeedsRows(p) ==
  IF AtInsert(p) /\ ~\E r \in Statement(p).rows : BadValue(r)
  THEN Statement(p).rows ELSE {}

\* p waits for the open transaction of q: a row it updates or a key it inserts
\* is written and not yet committed or rolled back by q
WaitsFor(p, q) ==
  /\ q # p
  /\ \/ NeedsMeta(p) \cap DOMAIN sync[q].txmeta # {}
     \/ \E r \in NeedsRows(p) : Conflicts(sync[q].tx, r)

Blocked(p) == \E q \in Procs : WaitsFor(p, q)

\* ---------------------------------------------------------- the handler
BatchError(cause) == [kind |-> "Batch error", cause |-> cause]
NoProductsError == [kind |-> "No products in response for batch", cause |-> "body"]

\* mutant: the handler commits what the batch wrote so far before it moves on
HistoryAfterExceptionPartial(p) == history \cup sync[p].tx

\* lines 517-519: nothing is committed; the connection is left open and is
\* discarded, uncommitted, when conn is rebound or the request returns
HistoryAfterException(p) == history

\* except Exception as e: errors.append(...); the for loop goes on
Raised(s, cause) ==
  [s EXCEPT !.errors = Append(@, BatchError(cause)), !.conn = "abandoned",
            !.pc = "fetch", !.i = @ + batch_size, !.stage = "begin",
            !.products = <<>>, !.k = 0]

\* lines 231-246: the locals of request p after the early returns
Started(p) ==
  LET active == {a \in AsinIds : asins[a].is_active}
  IN  IF api_key = None
      THEN [Idle EXCEPT !.pc = "done",
                        !.result = [status |-> 500,
                                    error |-> "Keepa API key not configured"]]
      ELSE IF active = {}
      THEN [Idle EXCEPT !.pc = "done",
                        !.result = [status |-> 200, message |-> "No ASINs to sync"]]
      ELSE [Idle EXCEPT !.pc = "fetch", !.asinsL = SortedSeq(active), !.i = 0,
                        !.updated = 0, !.errors = <<>>]

Returned == [Idle EXCEPT !.pc = "returned"]

\* requests served one after the other, the lower-numbered first; the locals
\* of a request whose response was delivered are gone
StartSync(p) ==
  /\ \A q \in Procs : q < p => sync[q].pc \in {"done", "returned"}
  /\ sync[p].pc = "idle"
  /\ sync' = [q \in Procs |->
               IF q = p THEN Started(p)
               ELSE IF sync[q].pc = "done" THEN Returned ELSE sync[q]]
  /\ UNCHANGED <<now, api_key, asins, history, rvars>>

\* batch = asins[i:i+batch_size]
Batch(p) ==
  LET l == sync[p].asinsL
      i == sync[p].i
  IN  SubSeq(l, i + 1, IF i + batch_size < Len(l) THEN i + batch_size ELSE Len(l))

\* lines 248-271: one request to the vendor and, with products, a new connection
Fetch(p, responses) ==
  /\ sync[p].pc = "fetch" /\ sync[p].i < Len(sync[p].asinsL)
  /\ \E resp \in responses :
       sync' = [sync EXCEPT ![p] =
         CASE resp.kind = "raise" ->
                [@ EXCEPT !.errors = Append(@, BatchError("fetch")),
                          !.i = @ + batch_size]
           [] resp.kind = "noproducts" ->
                [@ EXCEPT !.errors = Append(@, NoProductsError),
                          !.i = @ + batch_size]
           [] resp.kind = "products" ->
                [@ EXCEPT !.products = resp.products, !.k = 1, !.stage = "begin",
                          !.conn = "open", !.tx = {}, !.txmeta = <<>>,
                          !.txnow = 0, !.pc = "item"]]
  /\ UNCHANGED <<now, api_key, asins, history, rvars>>

FetchBatch(p) == Fetch(p, Responses(Batch(p)))

\* lines 273-370: latest values, UPDATE asins, SELECT COUNT(*)
ItemBegin(p) ==
  LET s       == sync[p]
      product == s.products[s.k]
      upd     == update_fields(product)
  IN  /\ AtBegin(p)
      /\ ~Blocked(p)
      /\ sync' = [sync EXCEPT ![p] =
           IF product.asin = NoAsin THEN [s EXCEPT !.k = @ + 1]
           ELSE IF LatestAll(product.csv).raised THEN Raised(s, "type")
           ELSE [s EXCEPT
                   !.txmeta = IF upd = NoUpdate THEN @
                              ELSE PendingMeta(@, product.asin, upd),
                   !.txnow = IF @ = 0 THEN now ELSE @,
                   !.history_count =
                      Cardinality({r \in Visible(p) : r.asin = product.asin}),
                   !.stage = "insert"]]
      /\ history' = IF sync'[p].pc = "fetch" THEN HistoryAfterException(p) ELSE history
      /\ UNCHANGED <<now, api_key, asins, rvars>>

\* lines 372-512: the backfill or the append, then updated += 1
ItemInsert(p) ==
  LET s  == sync[p]
      st == Statement(p)
  IN  /\ AtInsert(p)
      /\ ~Blocked(p)
      /\ sync' = [sync EXCEPT ![p] =
           IF st.raised THEN Raised(s, "decode")
           ELSE IF \E r \in st.rows : BadValue(r) THEN Raised(s, "data")
           ELSE IF ~st.ignore /\ \E r \in st.rows : Conflicts(Visible(p), r)
                THEN Raised(s, "unique")
           ELSE [s EXCEPT
                   !.tx = @ \cup {r \in st.rows : ~Conflicts(Visible(p), r)},
                   !.updated = @ + 1, !.k = @ + 1, !.stage = "begin"]]
      /\ history' = IF sync'[p].pc = "fetch" THEN HistoryAfterException(p) ELSE history
      /\ UNCHANGED <<now, api_key, asins, rvars>>

\* two requests wait for each other: the database aborts one statement
DeadlockDetected(p) ==
  /\ \E q \in Procs : WaitsFor(p, q) /\ WaitsFor(q, p)
  /\ sync' = [sync EXCEPT ![p] = Raised(@, "deadlock")]
  /\ history' = HistoryAfterException(p)
  /\ UNCHANGED <<now, api_key, asins, rvars>>

\* lines 514-515: conn.commit(); conn.close()
CommitBatch(p) ==
  LET s == sync[p]
  IN  /\ s.pc = "item" /\ s.stage = "begin" /\ s.k > Len(s.products)
      /\ history' = history \cup s.tx
      /\ asins' = [a \in AsinIds |->
                     IF a \in DOMAIN s.txmeta THEN Overlay(asins[a], s.txmeta[a])
                     ELSE asins[a]]
      /\ sync' = [sync EXCEPT ![p] =
                    [s EXCEPT !.conn = "none", !.tx = {}, !.txmeta = <<>>,
                              !.pc = "fetch", !.i = @ + batch_size,
                              !.products = <<>>, !.k = 0]]
      /\ UNCHANGED <<now, api_key, rvars>>

\* lines 521-525
FinishSync(p) ==
  LET s == sync[p]
  IN  /\ s.pc = "fetch" /\ s.i >= Len(s.asinsL)
      /\ sync' = [sync EXCEPT ![p] =
                    [s EXCEPT !.pc = "done", !.conn = "none", !.tx = {},
                              !.txmeta = <<>>,
                              !.result = [status |-> 200, success |-> TRUE,
                                          updated |-> s.updated,
                                          errors |-> s.errors]]]
      /\ UNCHANGED <<now, api_key, asins, history, rvars>>

Tick ==
  /\ now < Now0 + MaxTicks
  /\ now' = now + 1
  /\ UNCHANGED <<svars, rvars>>

Next ==
  \/ \E p \in Procs : StartSync(p)
  \/ \E p \in Procs : FetchBatch(p)
  \/ \E p \in Procs : ItemBegin(p)
  \/ \E p \in Procs : ItemInsert(p)
  \/ \E p \in Procs : CommitBatch(p)
  \/ \E p \in Procs : FinishSync(p)
  \/ Tick

Spec == Init /\ [][Next]_vars

\* ------------------------------------------- overlapping sync requests
\* a second request may start while the first is running
StartOverlapping(p) ==
  /\ \A q \in Procs : q < p => sync[q].pc # "idle"
  /\ sync[p].pc = "idle"
  /\ sync' = [sync EXCEPT ![p] = Started(p)]
  /\ UNCHANGED <<now, api_key, asins, history, rvars>>

\* the answers of the vendor while requests overlap: the items of the first
\* batch in either order, nothing usable for the later batches
OverlapResponses(batch) ==
  IF ColdAsin \in Range(batch)
  THEN {[kind |-> "products", products |-> q] :
          q \in {<<ProductA>>, <<ProductW>>, <<ProductA, ProductW>>,
                 <<ProductW, ProductA>>}}
  ELSE {[kind |-> "noproducts"]}

FetchOverlapping(p) == Fetch(p, OverlapResponses(Batch(p)))

OInit == Init /\ api_key # None

ONext ==
  \/ \E p \in Procs : StartOverlapping(p)
  \/ \E p \in Procs : FetchOverlapping(p)
  \/ \E p \in Procs : ItemBegin(p)
  \/ \E p \in Procs : ItemInsert(p)
  \/ \E p \in Procs : DeadlockDetected(p)
  \/ \E p \in Procs : CommitBatch(p)
  \/ \E p \in Procs : FinishSync(p)
  \/ Tick

SpecOverlap == OInit /\ [][ONext]_vars

\* ------------------------------------------------- reconciler properties
AsinAt(p) == sync[p].products[sync[p].k].asin
StoredCount(p, a) == Cardinality({r \in history \cup sync[p].tx : r.asin = a})
\* request p executes its INSERT in this step
InsertStep(p) == AtInsert(p) /\ sync'[p] # sync[p]
Added(p) == sync'[p].tx \ sync[p].tx
Fails(p) == sync'[p].conn = "abandoned"
DayGranular(r) == r.captured_at = Midnight(DateOf(r.captured_at))

PayloadDays(product, cutoff) ==
  UNION {{DateOf(KEEPA_EPOCH + product.csv[c][2 * j - 1].v) :
            j \in Kept(product.csv[c], cutoff)} : c \in {"c18", "c1", "c3", "c11"}}
OnePerDay(rows, days) ==
  /\ \A d \in days : Cardinality({r \in rows : r.captured_at = Midnight(d)}) = 1
  /\ Cardinality(rows) = Cardinality(days)
ColdRows(rows) == {r \in rows : r.asin = ColdAsin}

\* C5: backfilling the same payload again over a history that started empty
\* leaves exactly one row per calendar day of the decoded series: the repeated
\* run adds no row and raises no error.
C5_BackfillIdempotent ==
  [][/\ ColdRows(history') # {} =>
          OnePerDay(ColdRows(history'), PayloadDays(ProductA, Cutoff(now')))
     /\ \A p \in Procs :
          (InsertStep(p) /\ sync[p].products[sync[p].k] = ProductA) =>
            /\ ~Fails(p)
            /\ sync'[p].updated = sync[p].updated + 1
            /\ OnePerDay(ColdRows(history \cup sync'[p].tx),
                         PayloadDays(ProductA, Cutoff(now)))
            /\ ColdRows(history \cup sync[p].tx) # {} => Added(p) = {}]_vars

\* a second request has backfilled the payload the first one committed, and two
\* runs in one response
C5_Witness ==
  /\ ColdRows(history) # {}
  /\ \E p \in Procs :
       /\ sync[p].pc = "item" /\ sync[p].k = 3 /\ sync[p].updated = 2
       /\ sync[p].products = <<ProductA, ProductA>>
       /\ sync[p].tx = {}

\* C6: no two stored snapshots of an item share a capture instant, and an insert
\* whose (item, instant) is already stored is dropped without raising an error
\* that fails the batch.
C6_UniqueAndSilent ==
  /\ \A x, y \in history :
       (x.asin = y.asin /\ x.captured_at = y.captured_at) => x = y
  /\ \A p \in Procs : \A n \in 1..Len(sync[p].errors) :
       sync[p].errors[n].cause # "unique"

\* the batch of request p ends in this step
BatchEnds(p) == sync[p].pc = "item" /\ sync'[p].pc = "fetch"

\* C7: a failing item does not keep the other items of its batch from being
\* processed and persisted: when a batch ends, every product of the response
\* has been handled and every snapshot written for the batch is stored.
C7_ItemGranularFailure ==
  [][\A p \in Procs :
       BatchEnds(p) =>
         /\ sync[p].k >= Len(sync[p].products)
         /\ sync[p].tx \subseteq history']_vars

\* C8: a batch ends either with all its snapshot inserts and metadata updates
\* visible together, or with none of them visible, an error appended for the
\* batch and the loop at the next batch; nothing becomes visible in between.
C8_BatchAtomic ==
  [][/\ \A p \in Procs :
          BatchEnds(p) =>
            \/ /\ history' = history \cup sync[p].tx
               /\ \A a \in AsinIds :
                    asins'[a] = IF a \in DOMAIN sync[p].txmeta
                                THEN Overlay(asins[a], sync[p].txmeta[a])
                                ELSE asins[a]
               /\ sync'[p].errors = sync[p].errors
               /\ sync'[p].i = sync[p].i + batch_size
            \/ /\ history' = history /\ asins' = asins
               /\ Len(sync'[p].errors) = Len(sync[p].errors) + 1
               /\ sync'[p].errors[Len(sync'[p].errors)].kind = "Batch error"
               /\ sync'[p].i = sync[p].i + batch_size
     /\ (\A p \in Procs : ~BatchEnds(p)) => (history' = history /\ asins' = asins)]_vars

\* the first batch failed after it had written snapshots and metadata, none of
\* it is stored, and the next batch was fetched and committed
C8_Witness ==
  \E p \in Procs :
    /\ sync[p].i = 2 * batch_size
    /\ Len(sync[p].errors) = 1 /\ sync[p].errors[1].cause = "decode"
    /\ ColdRows(history) = {} /\ asins[ColdAsin] = NewAsin
    /\ \E r \in history : r.asin = NearAsin /\ r.id.by = p
    /\ asins[NearAsin].title = Text("Gadget")

\* ================================================ get_deltas (DeltaEngine)
\* rows of the delta harness: each may or may not be stored
MaxDeltaAsins == 2

Days(n) == n * MinutesPerDay
Windows == {30, 90, 180}

\* ORDER BY captured_at DESC
RECURSIVE OrderDesc(_)
OrderDesc(rows) ==
  IF rows = {} THEN <<>>
  ELSE LET r == CHOOSE x \in rows : \A y \in rows : y.captured_at <= x.captured_at
       IN  <<r>> \o OrderDesc(rows \ {r})

\* mutant: the lookback bound taken strictly
get_closest_strict(asin, days_back, t) ==
  LET cutoff == t - Days(days_back)
      found  == OrderDesc({r \in history : r.asin = asin /\ r.captured_at < cutoff})
  IN  IF found = <<>> THEN None
      ELSE [buybox_price |-> found[1].buybox_price, new_price |-> found[1].new_price,
            rank |-> found[1].rank, seller_count |-> found[1].seller_count]

\* lines 626-635: WHERE asin = %s AND captured_at <= cutoff ... LIMIT 1
get_closest(asin, days_back, t) ==
  LET cutoff == t - Days(days_back)
      found  == OrderDesc({r \in history : r.asin = asin /\ r.captured_at <= cutoff})
  IN  IF found = <<>> THEN None
      ELSE [buybox_price |-> found[1].buybox_price, new_price |-> found[1].new_price,
            rank |-> found[1].rank, seller_count |-> found[1].seller_count]

\* float(x), in hundredths
Hundredths(x) == IF x.tag = "dec" THEN 100 * x.units + x.frac ELSE 100 * x.v

\* mutant: an absent value counted as 0
delta_coalesced(current_row, past_row, field) ==
  IF current_row = None \/ past_row = None THEN None
  ELSE LET c == IF current_row[field] = None THEN IntV(0) ELSE current_row[field]
           q == IF past_row[field] = None THEN IntV(0) ELSE past_row[field]
       IN  Dec(Hundredths(c) - Hundredths(q))

\* lines 642-649
delta(current_row, past_row, field) ==
  IF current_row = None \/ past_row = None THEN None
  ELSE LET c == current_row[field]
           q == past_row[field]
       IN  IF c = None \/ q = None THEN None
           ELSE Dec(Hundredths(c) - Hundredths(q))

\* lines 637-665
get_deltas(asin, t) ==
  LET current  == get_closest(asin, 0, t)
      past_30  == get_closest(asin, 30, t)
      past_90  == get_closest(asin, 90, t)
      past_180 == get_closest(asin, 180, t)
  IN  [asin |-> asin,
       price_delta_30      |-> delta(current, past_30,  "buybox_price"),
       price_delta_90      |-> delta(current, past_90,  "buybox_price"),
       price_delta_180     |-> delta(current, past_180, "buybox_price"),
       new_price_delta_30  |-> delta(current, past_30,  "new_price"),
       new_price_delta_90  |-> delta(current, past_90,  "new_price"),
       new_price_delta_180 |-> delta(current, past_180, "new_price"),
       rank_delta_30       |-> delta(current, past_30,  "rank"),
       rank_delta_90       |-> delta(current, past_90,  "rank"),
       rank_delta_180      |-> delta(current, past_180, "rank"),
       seller_delta_30     |-> delta(current, past_30,  "seller_count"),
       seller_delta_90     |-> delta(current, past_90,  "seller_count"),
       seller_delta_180    |-> delta(current, past_180, "seller_count")]

\* GET /deltas/<asin>
GetDeltas(asin) ==
  /\ deltas' = [run |-> TRUE, at |-> now, body |-> get_deltas(asin, now)]
  /\ UNCHANGED <<now, svars, csv, series, daily, latest, bulk>>

\* ------------------------------------------------ get_all_deltas (bulk)
\* SELECT asin FROM asins WHERE is_active = TRUE
ActiveAsins == {a \in AsinIds : asins[a].is_active}

\* mutant: the earliest row of each item instead of the latest
get_snapshots_oldest(days_back, active, t) ==
  LET cutoff == t - Days(days_back)
      rows   == {r \in history : r.asin \in active /\ r.captured_at <= cutoff}
      found  == {a \in active : \E r \in rows : r.asin = a}
  IN  [a \in found |->
         LET first == CHOOSE r \in rows :
                        /\ r.asin = a
                        /\ \A x \in rows : x.asin = a => r.captured_at <= x.captured_at
         IN  [asin |-> a, buybox_price |-> first.buybox_price,
              new_price |-> first.new_price, rank |-> first.rank,
              seller_count |-> first.seller_count]]

\* lines 546-557: SELECT DISTINCT ON (asin) ... ORDER BY asin, captured_at DESC,
\* as a dict keyed by asin
get_snapshots(days_back, active, t) ==
  LET cutoff == t - Days(days_back)
      rows   == {r \in history : r.asin \in active /\ r.captured_at <= cutoff}
      found  == {a \in active : \E r \in rows : r.asin = a}
  IN  [a \in found |->
         LET first == OrderDesc({r \in rows : r.asin = a})[1]
         IN  [asin |-> a, buybox_price |-> first.buybox_price,
              new_price |-> first.new_price, rank |-> first.rank,
              seller_count |-> first.seller_count]]

\* dict.get(asin)
Get(d, a) == IF a \in DOMAIN d THEN d[a] ELSE None

\* lines 564-571
bulk_delta(c, p, field) ==
  IF c = None \/ p = None THEN None
  ELSE LET cv == c[field]
           pv == p[field]
       IN  IF cv = None \/ pv = None THEN None
           ELSE Dec(Hundredths(cv) - Hundredths(pv))

\* lines 559-593; queries: the days_back of each history query issued
get_all_deltas(t) ==
  LET active   == ActiveAsins
      current  == get_snapshots(0, active, t)
      past_30  == get_snapshots(30, active, t)
      past_90  == get_snapshots(90, active, t)
      past_180 == get_snapshots(180, active, t)
  IN  IF active = {} THEN [body |-> <<>>, queries |-> <<>>]
      ELSE [queries |-> <<0, 30, 90, 180>>,
            body |->
              [a \in active |->
                 LET c    == Get(current, a)
                     p30  == Get(past_30, a)
                     p90  == Get(past_90, a)
                     p180 == Get(past_180, a)
                 IN  [asin |-> a,
                      price_delta_30      |-> bulk_delta(c, p30,  "buybox_price"),
                      price_delta_90      |-> bulk_delta(c, p90,  "buybox_price"),
                      price_delta_180     |-> bulk_delta(c, p180, "buybox_price"),
                      new_price_delta_30  |-> bulk_delta(c, p30,  "new_price"),
                      new_price_delta_90  |-> bulk_delta(c, p90,  "new_price"),
                      new_price_delta_180 |-> bulk_delta(c, p180, "new_price"),
                      rank_delta_30       |-> bulk_delta(c, p30,  "rank"),
                      rank_delta_90       |-> bulk_delta(c, p90,  "rank"),
                      rank_delta_180      |-> bulk_delta(c, p180, "rank"),
                      seller_delta_30     |-> bulk_delta(c, p30,  "seller_count"),
                      seller_delta_90     |-> bulk_delta(c, p90,  "seller_count"),
                      seller_delta_180    |-> bulk_delta(c, p180, "seller_count")]]]

\* GET /deltas
GetAllDeltas ==
  /\ bulk' = LET r == get_all_deltas(now)
             IN  [run |-> TRUE, at |-> now, body |-> r.body, queries |-> r.queries]
  /\ UNCHANGED <<now, svars, csv, series, daily, latest, deltas>>

\* ------------------------------------------------- item registry routes
\* mutant: a delete that removes the item's snapshots with it
HistoryAfterHardDelete(a) == {r \in history : r.asin # a}

\* line 183: the DELETE route only updates the asins table
HistoryAfterDelete(a) == history

\* no row of the asins table for the item
Unregistered ==
  [is_active |-> FALSE, title |-> None, weight |-> None, category |-> None,
   image_url |-> None, absent |-> TRUE]
Registered(a) == "absent" \notin DOMAIN asins[a]

\* DELETE /asins/<asin>: UPDATE asins SET is_active = FALSE WHERE asin = %s
DeleteAsin(a) ==
  /\ asins' = IF Registered(a) THEN [asins EXCEPT ![a].is_active = FALSE] ELSE asins
  /\ history' = HistoryAfterDelete(a)
  /\ UNCHANGED <<now, api_key, sync, rvars>>

\* snapshots that may be stored when deltas are asked for
DeltaRow(asin, n, at, bb, np, rk, sc) ==
  Row([by |-> 0, i |-> 0, k |-> asin, n |-> n], asin, at, bb, np, rk, sc, None, FALSE)
DeltaRows(a) ==
  {DeltaRow(a, 1, Now0 + 1, Dec(2600), Dec(900), None, IntV(0)),
   DeltaRow(a, 2, Now0, Dec(2500), None, IntV(5), IntV(3)),
   DeltaRow(a, 3, Now0 - Days(30) + 1, Dec(2100), None, IntV(7), IntV(1)),
   DeltaRow(a, 4, Now0 - Days(30), Dec(2000), Dec(800), IntV(5), None),
   DeltaRow(a, 5, Now0 - Days(90), None, Dec(700), IntV(9), IntV(2)),
   DeltaRow(a, 6, Now0 - Days(181), Dec(1000), None, None, IntV(0))}
DeltaAsins == 1..MaxDeltaAsins

TInit ==
  /\ now = Now0
  /\ api_key = None
  /\ asins = [a \in AsinIds |-> NewAsin]
  /\ history \in SUBSET (DeltaRows(1) \cup
                         {r \in UNION {DeltaRows(a) : a \in DeltaAsins \ {1}} :
                            r.id.n \in {2, 4}})
  /\ sync = [p \in Procs |-> Idle]
  /\ csv = NoCsv /\ series = NotRun /\ daily = NotRun /\ latest = NotRun
  /\ deltas = NotRun /\ bulk = NotRun

TNext ==
  \/ \E a \in DeltaAsins : GetDeltas(a)
  \/ GetAllDeltas
  \/ DeleteAsin(WarmAsin)
  \/ Tick

SpecDelta == TInit /\ [][TNext]_vars

\* ------------------------------------------------------ delta properties
DeltaKey(m, w) ==
  CASE m = "buybox_price" /\ w = 30  -> "price_delta_30"
    [] m = "buybox_price" /\ w = 90  -> "price_delta_90"
    [] m = "buybox_price" /\ w = 180 -> "price_delta_180"
    [] m = "new_price" /\ w = 30     -> "new_price_delta_30"
    [] m = "new_price" /\ w = 90     -> "new_price_delta_90"
    [] m = "new_price" /\ w = 180    -> "new_price_delta_180"
    [] m = "rank" /\ w = 30          -> "rank_delta_30"
    [] m = "rank" /\ w = 90          -> "rank_delta_90"
    [] m = "rank" /\ w = 180         -> "rank_delta_180"
    [] m = "seller_count" /\ w = 30  -> "seller_delta_30"
    [] m = "seller_count" /\ w = 90  -> "seller_delta_90"
    [] m = "seller_count" /\ w = 180 -> "seller_delta_180"

\* the snapshots of an item captured at or before an instant, and the most
\* recent among them
AtOrBefore(a, t) == {r \in history : r.asin = a /\ r.captured_at <= t}
MostRecent(rows) == {r \in rows : \A x \in rows : x.captured_at <= r.captured_at}

\* C10: per window w and metric m the delta is absent when the current snapshot
\* (most recent at or before now) or the reference snapshot (most recent at or
\* before now - w days) is missing or lacks m, and is cur.m - ref.m otherwise;
\* an absent delta is never the number 0.
C10_DeltaPerMetric ==
  deltas # NotRun =>
    \A w \in Windows : \A m \in Metrics :
      LET d    == deltas.body[DeltaKey(m, w)]
          curs == MostRecent(AtOrBefore(deltas.body.asin, deltas.at))
          refs == MostRecent(AtOrBefore(deltas.body.asin, deltas.at - w * MinutesPerDay))
      IN  IF curs = {} \/ refs = {} THEN d = None
          ELSE \A cur \in curs : \A ref \in refs :
                 IF cur[m] = None \/ ref[m] = None THEN d = None
                 ELSE /\ d.tag = "dec"
                      /\ 100 * d.units + d.frac
                           = Hundredths(cur[m]) - Hundredths(ref[m])

\* the 30-day reference lies exactly 30 days back, the price delta is 5.00, the
\* seller-count delta of the same window is absent and the rank delta is 0
C10_Witness ==
  /\ deltas # NotRun
  /\ deltas.body.price_delta_30 = Dec(500)
  /\ deltas.body.seller_delta_30 = None
  /\ deltas.body.rank_delta_30 = Dec(0)
  /\ deltas.body.price_delta_90 = None
  /\ deltas.body.rank_delta_90 # None
  /\ deltas.body.price_delta_180 = None

DeltaKeys == {DeltaKey(m, w) : m \in Metrics, w \in Windows}

\* C11: the bulk response has an entry for exactly the active items, each with
\* the twelve delta fields the per-item operation returns for that item over
\* the same history at the same now, and the number of history queries issued
\* is one per window plus one, whatever the number of items.
C11_BulkEqualsPerItem ==
  [][bulk' # bulk =>
       /\ DOMAIN bulk'.body = ActiveAsins
       /\ \A a \in ActiveAsins :
            /\ DOMAIN bulk'.body[a] = DeltaKeys \cup {"asin"}
            /\ bulk'.body[a].asin = a
            /\ LET one == get_deltas(a, now)
               IN  \A key \in DeltaKeys : bulk'.body[a][key] = one[key]
            /\ (deltas # NotRun /\ deltas.at = now /\ deltas.body.asin = a) =>
                 \A key \in DeltaKeys : bulk'.body[a][key] = deltas.body[key]
       /\ Len(bulk'.queries) <= Cardinality(Windows) + 1
       /\ ActiveAsins # {} => Len(bulk'.queries) = Cardinality(Windows) + 1]_vars

\* both operations answered at the same now for an item with a numeric and an
\* absent 30-day delta, while another item is soft-deleted and left out
C11_Witness ==
  /\ bulk # NotRun /\ deltas # NotRun /\ deltas.at = bulk.at
  /\ deltas.body.asin = 1 /\ 1 \in DOMAIN bulk.body
  /\ 2 \notin DOMAIN bulk.body
  /\ Cardinality(DOMAIN bulk.body) > 1
  /\ bulk.body[1].price_delta_30 = Dec(500)
  /\ bulk.body[1].seller_delta_30 = None
  /\ bulk.body[1].rank_delta_90 # None

\* ------------------------------------------ rank and seller count: 0 and -1
\* the raw value entries of a column, in order
RawValues(col) == [j \in PairIdx(col) |-> col[2 * j]]
\* what the backfill stores for a count metric, per day
CountStoredAsClaimed(col, s, m) ==
  /\ s = Expected(col, Cutoff(now), "count")
  /\ AggregateDone =>
       \A day \in DOMAIN daily.days :
         LET raw == {col[2 * j].v : j \in {k \in Kept(col, Cutoff(now)) :
                        DateOf(KEEPA_EPOCH + col[2 * k - 1].v) = day}}
         IN  /\ daily.days[day][m] = None <=> raw \subseteq {-1}
             /\ daily.days[day][m] = IntV(0) => 0 \in raw
             /\ daily.days[day][m] # None => daily.days[day][m].v \in raw \ {-1}
\* what the append path stores for a count metric
CountLatestAsClaimed(col, v) ==
  LET raw == RawValues(col)
      J   == {j \in PairIdx(col) : raw[j] # IntV(-1)}
  IN  /\ J = {} => v = None
      /\ (J # {} /\ raw[Nth(J, Cardinality(J))] = IntV(0)) => v = IntV(0)
      /\ v = IntV(0) => \E j \in PairIdx(col) : raw[j] = IntV(0)

\* C12: for rank and seller count a raw 0 is stored as the number 0 and only a
\* raw -1 is absent, on the backfill path (decoded series and daily snapshot)
\* and on the append path (latest value); an absent value is stored as absent
\* (checked on interleaved arrays of integers).
C12_ZeroKeptAbsentAbsent ==
  /\ (DecodeDone /\ AllInt(csv.c3)) =>
       CountStoredAsClaimed(csv.c3, series.rank, "rank")
  /\ (DecodeDone /\ AllInt(csv.c11)) =>
       CountStoredAsClaimed(csv.c11, series.seller, "seller_count")
  /\ (LatestDone /\ Interleaved(csv.c3)) => CountLatestAsClaimed(csv.c3, latest.rank)
  /\ (LatestDone /\ Interleaved(csv.c11)) =>
       CountLatestAsClaimed(csv.c11, latest.seller_count)

\* the backfill path alone does what C12 says
C12_BackfillKeepsZero ==
  /\ (DecodeDone /\ AllInt(csv.c3)) =>
       CountStoredAsClaimed(csv.c3, series.rank, "rank")
  /\ (DecodeDone /\ AllInt(csv.c11)) =>
       CountStoredAsClaimed(csv.c11, series.seller, "seller_count")

\* ------------------------------------------- registry routes and sync
\* request bodies of POST /asins and PATCH /asins/<asin>
NoData == <<>>
AddBodies == {[title |-> Text("Tracked")]}
PatchBodies == {NoData, [title |-> Text("Renamed")], [cost |-> Dec(500)]}

\* data.get(key, default)
GetOr(data, key, default) == IF key \in DOMAIN data THEN data[key] ELSE default

\* POST /asins, lines 117-139: the INSERT is committed, or it is rejected for
\* an item that already has a row (soft-deleted or not) and rolled back
AddAsin(a, data) ==
  /\ asins' = IF Registered(a) THEN asins
              ELSE [asins EXCEPT ![a] =
                      [is_active |-> TRUE,
                       title     |-> GetOr(data, "title", Text("")),
                       weight    |-> GetOr(data, "weight", None),
                       category  |-> GetOr(data, "category", Text("")),
                       image_url |-> None]]
  /\ UNCHANGED <<now, api_key, history, sync, rvars>>

\* lines 157-160
PatchFields == {"title", "cost", "weight", "notes", "fba_fee", "referral_fee_override"}

\* PATCH /asins/<asin>, lines 154-172
UpdateAsin(a, data) ==
  /\ asins' = IF DOMAIN data \cap PatchFields = {} \/ ~Registered(a) THEN asins
              ELSE [asins EXCEPT ![a] =
                      [f \in DOMAIN @ |->
                         IF f \in DOMAIN data \cap PatchFields THEN data[f] ELSE @[f]]]
  /\ UNCHANGED <<now, api_key, history, sync, rvars>>

\* an item never registered so far
FreshAsin == 3
LifeAsins == {WarmAsin, NearAsin, FreshAsin}

\* answers of the vendor while the registry changes
LifeResponses(batch) ==
  {[kind |-> "products", products |-> q] :
     q \in {r \in {<<ProductC>>, <<ProductW>>, <<ProductC, ProductW>>, <<ProductCBad>>} :
              \A j \in 1..Len(r) : r[j].asin \in Range(batch)}}

FetchLife(p) == Fetch(p, LifeResponses(Batch(p)))

LInit ==
  /\ now = Now0
  /\ api_key = Text("key")
  /\ asins = [a \in AsinIds |->
                IF a \in {WarmAsin, NearAsin} THEN NewAsin ELSE Unregistered]
  /\ history = WarmRows \cup NearRows
  /\ sync = [p \in Procs |-> Idle]
  /\ csv = NoCsv /\ series = NotRun /\ daily = NotRun /\ latest = NotRun
  /\ deltas = NotRun /\ bulk = NotRun

LNext ==
  \/ \E p \in Procs : StartSync(p)
  \/ \E p \in Procs : FetchLife(p)
  \/ \E p \in Procs : ItemBegin(p)
  \/ \E p \in Procs : ItemInsert(p)
  \/ \E p \in Procs : CommitBatch(p)
  \/ \E p \in Procs : FinishSync(p)
  \/ \E a \in {FreshAsin, WarmAsin}, data \in AddBodies : AddAsin(a, data)
  \/ \E data \in PatchBodies : UpdateAsin(WarmAsin, data)
  \/ \E a \in LifeAsins : DeleteAsin(a)

SpecLife == LInit /\ [][LNext]_vars

\* committed snapshots of an item
Committed(a) == {r \in history : r.asin = a}

\* C13: every committed snapshot stays stored with the values it was committed
\* with; so the snapshot count of an item never decreases, and an item with 30
\* or more committed snapshots never takes the backfill branch again.
C13_AppendOnly ==
  [][/\ history \subseteq history'
     /\ \A a \in AsinIds :
          Cardinality({r \in history' : r.asin = a}) >= Cardinality(Committed(a))
     /\ \A p \in Procs :
          (InsertStep(p) /\ Cardinality(Committed(AsinAt(p))) >= MinHistory) =>
            /\ Statement(p).branch = "append"
            /\ \A r \in Added(p) : ~DayGranular(r)]_vars

\* an item went from 29 to 30 snapshots by a backfill and got its next snapshot
\* by an append, while another item was renamed and soft-deleted with its
\* snapshots kept, and a new item was registered
C13_Witness ==
  /\ Cardinality(Committed(NearAsin)) = MinHistory + 1
  /\ \E r \in Committed(NearAsin) : ~DayGranular(r)
  /\ ~asins[WarmAsin].is_active /\ asins[WarmAsin].title = Text("Renamed")
  /\ Cardinality(Committed(WarmAsin)) >= MinHistory
  /\ Registered(FreshAsin)

\* ------------------------------------------------------- backfill cutoff
ColumnOf(m) ==
  CASE m = "buybox_price" -> csv.c18
    [] m = "new_price"    -> csv.c1
    [] m = "rank"         -> csv.c3
    [] m = "seller_count" -> csv.c11
NoStr(col) == \A i \in 1..Len(col) : col[i].tag # "str"
\* now - 180 days
ClaimedCutoff == now - 180 * 1440
\* decoded instants of the pairs at or after the claimed cutoff, in order
RetainedInstants(col) ==
  [i \in 1..Cardinality(Kept(col, ClaimedCutoff)) |->
     KEEPA_EPOCH + col[2 * Nth(Kept(col, ClaimedCutoff), i) - 1].v]

\* C14: an entry decoded to an instant strictly before now - 180 days is in no
\* decoded series and opens no daily snapshot; an entry at or after that instant
\* is retained, in order (checked on arrays without non-numeric elements).
C14_CutoffDropsEarlier ==
  /\ DecodeDone =>
       \A m \in Metrics :
         NoStr(ColumnOf(m)) =>
           /\ \A i \in 1..Len(SeriesOf(m)) : SeriesOf(m)[i].dt >= ClaimedCutoff
           /\ [i \in 1..Len(SeriesOf(m)) |-> SeriesOf(m)[i].dt]
                = RetainedInstants(ColumnOf(m))
  /\ (AggregateDone /\ \A m \in Metrics : NoStr(ColumnOf(m))) =>
       DOMAIN daily.days =
         UNION {{DateOf(RetainedInstants(ColumnOf(m))[i]) :
                   i \in 1..Len(RetainedInstants(ColumnOf(m)))} : m \in Metrics}

\* a rank one minute before the cutoff is dropped and the rank exactly at the
\* cutoff, on the same calendar day, is the one in the daily snapshot
C14_Witness ==
  /\ AggregateDone
  /\ csv.c3 = <<IntV(TsCut - 1), IntV(2000), IntV(TsCut), IntV(0)>>
  /\ Len(series.rank) = 1 /\ series.rank[1].dt = now - 180 * 1440
  /\ daily.days[DateOf(now - 180 * 1440)].rank = IntV(0)

\* ------------------------------------------------- the sync summary
\* items of the current batch of request p already counted in `updated`
CountedInBatch(p) ==
  Cardinality({j \in 1..(sync[p].k - 1) : sync[p].products[j].asin # NoAsin})

\* C15: `updated` in the summary counts the items whose writes were committed:
\* a batch that ends without a commit leaves in the count nothing for the items
\* it had processed, and the summary reports the count so obtained.
C15_UpdatedCountsCommitted ==
  [][\A p \in Procs :
       /\ (BatchEnds(p) /\ Fails(p)) =>
            sync'[p].updated = sync[p].updated - CountedInBatch(p)
       /\ (sync[p].pc = "fetch" /\ sync'[p].pc = "done") =>
            sync'[p].result.updated = sync[p].updated]_vars

====
